---- MODULE Spec2Model ----
(***************************************************************************)
(* Model of labeled_image_transfer.py: the name normalizer, the Roboflow   *)
(* name transformer, the filesystem indexer, the resolver and the copy     *)
(* engine.  File names are sequences of characters (one-character strings; *)
(* two characters outside ASCII are written by their code points), paths   *)
(* follow posixpath ("/" is the only separator).                           *)
(***************************************************************************)
EXTENDS Integers, Sequences, FiniteSets, TLC

VARIABLES
    \* one call of a function of the module on its own
    p_arg,      \* the name passed in
    p_ci,       \* case_insensitive
    p_call,     \* the function called, "none" before the call
    p_ret,      \* the values returned, in call order
    \* the world find_and_copy_from_csv runs in
    opts,       \* column, case_insensitive, overwrite, keep_dir_structure
    table,      \* the CSV file: has_header, fieldnames, cells of the column read
    disk,       \* the regular files under search_path, each [dir, name]
    rootOk,     \* search_path exists and can be listed
    walk,       \* the order in which os.walk yields the directories
    dst,        \* the files under destination_path, each [dir, name, data]
    dstDirs,    \* the directories that exist under destination_path ("." is itself)
    \* the run in progress
    caller,     \* the function the run entered: find_and_copy_from_csv or copy_files
    pc,         \* position in find_and_copy_from_csv / copy_files
    run,        \* number of runs started
    index,      \* build_filename_index's result
    targets,    \* copy_files' argument
    todo,       \* targets the outer loop has not reached yet
    target,     \* the outer loop's current target
    matches,    \* the inner loop's remaining candidates
    copied,     \* copy_files' counter
    budget,     \* what may still happen: runs to start, copies the filesystem fails
    tlog,       \* per target of this run: the keys looked up and the list found
    clog        \* per copy of this run: source, destination, how it ended

pvars == <<p_arg, p_ci, p_call, p_ret>>
world == <<opts, table, disk, rootOk, walk>>
mvars == <<opts, table, disk, rootOk, walk, dst, dstDirs, caller, pc, run, index,
           targets, todo, target, matches, copied, budget, tlog, clog>>
vars == <<p_arg, p_ci, p_call, p_ret, opts, table, disk, rootOk, walk, dst, dstDirs,
          caller, pc, run, index, targets, todo, target, matches, copied, budget, tlog, clog>>

(***************************************************************************)
(* Strings                                                                 *)
(***************************************************************************)
MinOf(S) == CHOOSE x \in S : \A y \in S : x <= y
MaxOf(S) == CHOOSE x \in S : \A y \in S : x >= y

RECURSIVE Cat(_)
Cat(ss) == IF ss = <<>> THEN <<>> ELSE Head(ss) \o Cat(Tail(ss))

\* s[:k] and s[k:] of Python, k counted from 0 and clamped to the length
Take(s, k) == SubSeq(s, 1, IF k > Len(s) THEN Len(s) ELSE k)
Drop(s, k) == SubSeq(s, (IF k > Len(s) THEN Len(s) ELSE k) + 1, Len(s))

StartsWithAt(s, i, pat) ==
    /\ i + Len(pat) - 1 <= Len(s)
    /\ \A j \in 1..Len(pat) : s[i + j - 1] = pat[j]

\* str.endswith
EndsWith(s, suf) == Len(suf) <= Len(s) /\ StartsWithAt(s, Len(s) - Len(suf) + 1, suf)

\* str.find: the lowest 0-based index of pat in s, -1 when absent
Find(s, pat) ==
    LET hits == {i \in 1..Len(s) : StartsWithAt(s, i, pat)}
    IN  IF hits = {} THEN -1 ELSE MinOf(hits) - 1

\* str.strip(chars): drop the leading and the trailing characters in cs
StripChars(s, cs) ==
    LET keep == {i \in 1..Len(s) : s[i] \notin cs}
    IN  IF keep = {} THEN <<>> ELSE SubSeq(s, MinOf(keep), MaxOf(keep))

Whitespace == {" ", "\t", "\n"}

\* str.lower of one character.  U+0130 (capital I with dot above) lowers to
\* two code points, "i" followed by U+0307; every other character to one.
LowerChar(c) ==
    CASE c = "A" -> <<"a">>
      [] c = "D" -> <<"d">>
      [] c = "F" -> <<"f">>
      [] c = "G" -> <<"g">>
      [] c = "I" -> <<"i">>
      [] c = "J" -> <<"j">>
      [] c = "P" -> <<"p">>
      [] c = "R" -> <<"r">>
      [] c = "T" -> <<"t">>
      [] c = "U+0130" -> <<"i", "U+0307">>
      [] OTHER -> <<c>>

\* str.lower
RECURSIVE Lower(_)
Lower(s) == IF s = <<>> THEN <<>> ELSE LowerChar(Head(s)) \o Lower(Tail(s))

\* posixpath.basename: what follows the last "/"
Basename(p) ==
    LET seps == {i \in 1..Len(p) : p[i] = "/"}
    IN  IF seps = {} THEN p ELSE Drop(p, MaxOf(seps))

\* posixpath.splitext of a name without "/": the extension starts at the last
\* dot, unless only dots precede it
Splitext(p) ==
    LET dots == {i \in 1..Len(p) : p[i] = "."}
        d == MaxOf(dots)
    IN  IF dots = {} \/ (\A i \in 1..(d - 1) : p[i] = ".")
        THEN <<p, <<>>>>
        ELSE <<Take(p, d - 1), Drop(p, d - 1)>>

(***************************************************************************)
(* _normalize                                                              *)
(***************************************************************************)
normalize(name, case_insensitive) ==
    LET n == Basename(StripChars(StripChars(StripChars(name, Whitespace), {"\""}), {"'"}))
    IN  IF case_insensitive THEN Lower(n) ELSE n

(***************************************************************************)
(* _csv_name_to_tif                                                        *)
(***************************************************************************)
DotTif == <<".", "t", "i", "f">>
DotTiff == <<".", "t", "i", "f", "f">>
DotJpg == <<".", "j", "p", "g">>
DotRfDot == <<".", "r", "f", ".">>

\* the alternatives of the pattern _(jpg|jpeg|png|tif|tiff)\.rf\.
RoboflowExts ==
    { <<"j", "p", "g">>, <<"j", "p", "e", "g">>, <<"p", "n", "g">>,
      <<"t", "i", "f">>, <<"t", "i", "f", "f">> }

\* re.search: the 0-based start of the leftmost match in s, -1 when none
RoboflowSearch(s) ==
    LET hits == {i \in 1..Len(s) :
                    \E e \in RoboflowExts : StartsWithAt(s, i, <<"_">> \o e \o DotRfDot)}
    IN  IF hits = {} THEN -1 ELSE MinOf(hits) - 1

\* a variant that leaves a name already ending in ".tif" or ".tiff" as it is
csv_name_to_tif_keeps_tiff(basename) ==
    LET base == Basename(basename)
        lower == Lower(base)
        m == RoboflowSearch(lower)
        idx == Find(lower, DotJpg)
    IN  IF m # -1 THEN Take(base, m) \o DotTif
        ELSE IF idx # -1 THEN Take(base, idx) \o DotTif
        ELSE IF Splitext(lower)[2] \in {DotTif, DotTiff} THEN base
        ELSE Splitext(base)[1] \o DotTif

csv_name_to_tif(basename) ==
    LET base == Basename(basename)
        lower == Lower(base)
        m == RoboflowSearch(lower)
        idx == Find(lower, DotJpg)
    IN  IF m # -1 THEN Take(base, m) \o DotTif
        ELSE IF idx # -1 THEN Take(base, idx) \o DotTif
        ELSE Splitext(base)[1] \o DotTif

(***************************************************************************)
(* load_filenames_from_csv                                                 *)
(***************************************************************************)
LIKELY_FILENAME_COLUMNS == { <<"f", "i", "l", "e", "n", "a", "m", "e">> }

\* column=None
None == <<>>

\* the position in fieldnames of the column read, 0 when there is none
UseCol(fieldnames, column) ==
    LET named == {i \in 1..Len(fieldnames) : fieldnames[i] = column}
        likely == {i \in 1..Len(fieldnames) : Lower(fieldnames[i]) \in LIKELY_FILENAME_COLUMNS}
    IN  IF column # None /\ named # {} THEN MinOf(named)
        ELSE IF likely # {} THEN MinOf(likely)
        ELSE IF fieldnames # <<>> THEN 1
        ELSE 0

\* [error |-> the ValueError was raised, names |-> the set returned]
load_filenames_from_csv(t, column, case_insensitive) ==
    LET col == IF t.has_header THEN UseCol(t.fieldnames, column) ELSE 1
        raws == {r[col] : r \in {x \in t.rows : col \in 1..Len(x)}}
    IN  IF t.has_header /\ col = 0
        THEN [error |-> TRUE, names |-> {}]
        ELSE [error |-> FALSE,
              names |-> {normalize(raw, case_insensitive) :
                            raw \in {x \in raws : StripChars(x, Whitespace) # <<>>}}]

(***************************************************************************)
(* build_filename_index                                                    *)
(***************************************************************************)
\* the entries of a directory, in the order the listing gives them
RECURSIVE Listing(_)
Listing(S) ==
    IF S = {} THEN <<>>
    ELSE LET f == CHOOSE x \in S : TRUE IN <<f>> \o Listing(S \ {f})

\* every file os.walk yields, in order; a root that cannot be listed yields
\* nothing (onerror is None, the error is dropped)
Walked(files, ok, order) ==
    IF ok
    THEN Cat([i \in 1..Len(order) |-> Listing({f \in files : f.dir = order[i]})])
    ELSE <<>>

IndexKey(file, case_insensitive) == IF case_insensitive THEN Lower(file) ELSE file

build_filename_index(files, ok, order, case_insensitive) ==
    LET entries == Walked(files, ok, order)
        keys == {IndexKey(entries[i].name, case_insensitive) : i \in 1..Len(entries)}
        Under(k) == LET Has(e) == IndexKey(e.name, case_insensitive) = k
                    IN  SelectSeq(entries, Has)
    IN  [k \in keys |-> Under(k)]

\* index.get(key, [])
IndexGet(idx, key) == IF key \in DOMAIN idx THEN idx[key] ELSE <<>>

(***************************************************************************)
(* copy_files                                                              *)
(***************************************************************************)
\* a variant that retries whatever the target ends in
Resolve_always_retries(idx, t) ==
    LET direct == IndexGet(idx, t)
        alt == Take(t, Len(t) - 4) \o DotTiff
    IN  IF direct = <<>>
        THEN [keys |-> <<t, alt>>, found |-> IndexGet(idx, alt)]
        ELSE [keys |-> <<t>>, found |-> direct]

\* lines 142-146: the keys looked up for a target and the list kept
Resolve(idx, t) ==
    LET direct == IndexGet(idx, t)
        alt == Take(t, Len(t) - 4) \o DotTiff
    IN  IF direct = <<>> /\ EndsWith(t, DotTif)
        THEN [keys |-> <<t, alt>>, found |-> IndexGet(idx, alt)]
        ELSE [keys |-> <<t>>, found |-> direct]

\* a variant that copies the first match only
Candidates_first_only(found) == IF found = <<>> THEN <<>> ELSE <<Head(found)>>

\* line 152: the candidates the inner loop goes through
Candidates(found) == found

\* os.path.exists of a file of the destination
Exists(files, dir, name) == \E f \in files : f.dir = dir /\ f.name = name

\* str(i) of a positive integer
RECURSIVE DecStr(_)
DecStr(i) ==
    LET digit == <<"0", "1", "2", "3", "4", "5", "6", "7", "8", "9">>[(i % 10) + 1]
    IN  IF i < 10 THEN <<digit>> ELSE DecStr(i \div 10) \o <<digit>>

Suffixed(name, i) ==
    LET se == Splitext(name) IN se[1] \o <<"_">> \o DecStr(i) \o se[2]

\* lines 153-161: the destination directory, relative to destination_path
DestDir(src, keep_dir_structure) == IF keep_dir_structure THEN src.dir ELSE "."

\* a variant that tries <base>_1<ext> and nothing after it
DestName_tries_one(files, dir, name, overwrite) ==
    IF ~overwrite /\ Exists(files, dir, name) THEN Suffixed(name, 1) ELSE name

\* a variant that does not look at what exists
DestName_replaces(files, dir, name, overwrite) == name

\* lines 163-170: the name the copy is written under
DestName(files, dir, name, overwrite) ==
    IF ~overwrite /\ Exists(files, dir, name)
    THEN LET free == {i \in 1..(Cardinality(files) + 1) : ~Exists(files, dir, Suffixed(name, i))}
         IN  Suffixed(name, MinOf(free))
    ELSE name

\* shutil.copy2 leaves the file at the destination holding data
Write(files, dir, name, data) ==
    {f \in files : ~(f.dir = dir /\ f.name = name)} \cup {[dir |-> dir, name |-> name, data |-> data]}

CopyOf(src) == [kind |-> "copy", of |-> src]
PartOf(src) == [kind |-> "partial", of |-> src]
OldData == [kind |-> "old", of |-> [dir |-> ".", name |-> <<>>]]

\* a variant that counts the copies attempted
Count_attempts(n, res) == n + 1

\* lines 172-177: the counter after a copy that ended res
Count(n, res) == IF res = "ok" THEN n + 1 ELSE n

(***************************************************************************)
(* The worlds find_and_copy_from_csv is run in                             *)
(***************************************************************************)
MaxRows == 2        \* rows of the CSV
MaxFiles == 2       \* files under search_path
MaxRuns == 2        \* runs of find_and_copy_from_csv on one destination
MaxFaults == 1      \* copies the filesystem fails

Filename == <<"f", "i", "l", "e", "n", "a", "m", "e">>
d_tif == <<"d">> \o DotTif
D_tif == <<"D">> \o DotTif
d_1_tif == <<"d", "_", "1">> \o DotTif
e_tif == <<"e">> \o DotTif
e_tiff == <<"e">> \o DotTiff

CsvCells ==
    { <<"d", "_", "j", "p", "g">> \o DotRfDot \o <<"h">> \o DotJpg,
      <<"D", ".", "J", "P", "G">>,
      e_tif,
      <<" ">> \o e_tiff,
      <<"z">> \o DotJpg }

DiskFiles ==
    { [dir |-> "a", name |-> d_tif], [dir |-> "b", name |-> d_tif],
      [dir |-> ".", name |-> D_tif],
      [dir |-> ".", name |-> e_tiff], [dir |-> "a", name |-> e_tif] }

\* target sets handed to copy_files directly
e_TIF == <<"e", ".", "T", "I", "F">>
DirectTargets == { {e_TIF, e_tif} }

OldFiles ==
    { [dir |-> ".", name |-> d_tif, data |-> OldData],
      [dir |-> "a", name |-> d_tif, data |-> OldData] }

\* a table with a header row naming the column, a table without header row
\* (one row), and an empty file
Tables(cells) ==
    { [has_header |-> TRUE, fieldnames |-> <<Filename>>, rows |-> {<<c>> : c \in cs}] :
          cs \in {x \in SUBSET cells : Cardinality(x) <= MaxRows} }
    \cup { [has_header |-> FALSE, fieldnames |-> <<>>, rows |-> {<<c>>}] : c \in cells }
    \cup { [has_header |-> TRUE, fieldnames |-> <<>>, rows |-> {}] }

\* the subdirectories come in the order scandir gives them, after the root
WalkOrders(files) ==
    IF \E f, g \in files : f.dir = "a" /\ g.dir = "b"
    THEN {<<".", "a", "b">>, <<".", "b", "a">>}
    ELSE {<<".", "a", "b">>}

World(cells, files, old) ==
    /\ table \in Tables(cells)
    /\ rootOk \in BOOLEAN
    /\ disk \in {x \in SUBSET files : Cardinality(x) <= MaxFiles /\ (~rootOk => x = {})}
    /\ walk \in WalkOrders(disk)
    /\ dst \in {{}} \cup {{f} : f \in old}
    /\ dstDirs = {f.dir : f \in dst} \cup (IF dst = {} THEN {} ELSE {"."})

MInit ==
    /\ opts \in [column : {None}, case_insensitive : BOOLEAN, overwrite : BOOLEAN,
                 keep_dir_structure : BOOLEAN]
    /\ World(CsvCells, DiskFiles, OldFiles)
    /\ budget = [runs |-> 1, faults |-> MaxFaults]
    /\ caller = "none"
    /\ pc = "idle"
    /\ run = 0
    /\ index = << >>
    /\ targets = {}
    /\ todo = {}
    /\ target = <<>>
    /\ matches = <<>>
    /\ copied = 0
    /\ tlog = <<>>
    /\ clog = <<>>

Loaded == load_filenames_from_csv(table, opts.column, opts.case_insensitive)

\* lines 201-205
TifTargets(raw_targets, case_insensitive) ==
    {IF case_insensitive THEN Lower(csv_name_to_tif(t)) ELSE csv_name_to_tif(t) : t \in raw_targets}

Startable == pc \in {"idle", "done"} /\ budget.runs > 0

\* line 196 raises: the ValueError of line 87 leaves find_and_copy_from_csv
LoadFails ==
    /\ Startable
    /\ Loaded.error
    /\ pc' = "error"
    /\ caller' = "find_and_copy_from_csv"
    /\ run' = run + 1
    /\ budget' = [budget EXCEPT !.runs = @ - 1]
    /\ UNCHANGED <<pvars, world, dst, dstDirs, index, targets, todo, target, matches, copied, tlog, clog>>

\* lines 197-199
NothingToDo ==
    /\ Startable
    /\ ~Loaded.error /\ Loaded.names = {}
    /\ pc' = "nothing"
    /\ caller' = "find_and_copy_from_csv"
    /\ run' = run + 1
    /\ budget' = [budget EXCEPT !.runs = @ - 1]
    /\ UNCHANGED <<pvars, world, dst, dstDirs, index, targets, todo, target, matches, copied, tlog, clog>>

\* lines 137-138: copy_files is entered
Enter(ts, idx) ==
    /\ targets' = ts
    /\ todo' = ts
    /\ index' = idx
    /\ dstDirs' = dstDirs \cup {"."}
    /\ copied' = 0
    /\ tlog' = <<>>
    /\ clog' = <<>>
    /\ target' = <<>>
    /\ matches' = <<>>
    /\ pc' = "loop"
    /\ run' = run + 1
    /\ budget' = [budget EXCEPT !.runs = @ - 1]
    /\ UNCHANGED <<pvars, world, dst>>

\* lines 201-218: the targets, the index, then copy_files
Begin ==
    /\ Startable
    /\ ~Loaded.error /\ Loaded.names # {}
    /\ caller' = "find_and_copy_from_csv"
    /\ Enter(TifTargets(Loaded.names, opts.case_insensitive),
             build_filename_index(disk, rootOk, walk, opts.case_insensitive))

\* copy_files called by other code, with targets of its own and an index of
\* the search path
CallCopyFiles ==
    /\ Startable
    /\ caller' = "copy_files"
    /\ \E ts \in DirectTargets :
          Enter(ts, build_filename_index(disk, rootOk, walk, opts.case_insensitive))

\* lines 140-150: the next target, in whatever order the set yields it
NextTarget ==
    /\ pc = "loop"
    /\ \E t \in todo :
          LET r == Resolve(index, t)
              cands == Candidates(r.found)
          IN  /\ todo' = todo \ {t}
              /\ target' = t
              /\ matches' = cands
              /\ tlog' = Append(tlog, [target |-> t, keys |-> r.keys, found |-> r.found])
              /\ pc' = IF cands = <<>> THEN "loop" ELSE "copy"
    /\ UNCHANGED <<pvars, world, dst, dstDirs, caller, run, index, targets, copied, budget, clog>>

\* lines 152-177: one candidate
CopyFile ==
    /\ pc = "copy"
    /\ LET src == Head(matches)
           dir == DestDir(src, opts.keep_dir_structure)
           name == DestName(dst, dir, src.name, opts.overwrite)
       IN  \E res \in {"ok", "IOError", "IOError, partly written"} :
              /\ res # "ok" => budget.faults > 0
              /\ budget' = IF res = "ok" THEN budget ELSE [budget EXCEPT !.faults = @ - 1]
              /\ dstDirs' = dstDirs \cup {dir}
              /\ dst' = CASE res = "ok" -> Write(dst, dir, name, CopyOf(src))
                          [] res = "IOError" -> dst
                          [] OTHER -> Write(dst, dir, name, PartOf(src))
              /\ copied' = Count(copied, res)
              /\ clog' = Append(clog, [target |-> target, src |-> src, dir |-> dir,
                                       name |-> name, res |-> res])
              /\ matches' = Tail(matches)
              /\ pc' = IF Tail(matches) = <<>> THEN "loop" ELSE "copy"
    /\ UNCHANGED <<pvars, world, caller, run, index, targets, todo, target, tlog>>

\* lines 179 and 220-223
Finish ==
    /\ pc = "loop"
    /\ todo = {}
    /\ pc' = "done"
    /\ UNCHANGED <<pvars, world, dst, dstDirs, caller, run, index, targets, todo, target, matches,
                   copied, budget, tlog, clog>>

PIdle == p_arg = <<>> /\ p_ci = FALSE /\ p_call = "none" /\ p_ret = <<>>

\* one run, of find_and_copy_from_csv or of copy_files
Init == MInit /\ PIdle
Next == LoadFails \/ NothingToDo \/ Begin \/ CallCopyFiles \/ NextTarget \/ CopyFile \/ Finish
Spec == Init /\ [][Next]_vars

\* find_and_copy_from_csv run again and again with the same arguments, on a
\* destination that does not exist before the first run
RerunCells ==
    { <<"d", "_", "j", "p", "g">> \o DotRfDot \o <<"h">> \o DotJpg,
      <<"d", "_", "1">> \o DotJpg,
      <<"z">> \o DotJpg }

RerunFiles ==
    { [dir |-> "a", name |-> d_tif], [dir |-> "b", name |-> d_tif],
      [dir |-> ".", name |-> d_1_tif] }

RInit ==
    /\ opts \in [column : {None}, case_insensitive : {TRUE}, overwrite : BOOLEAN,
                 keep_dir_structure : BOOLEAN]
    /\ World(RerunCells, RerunFiles, {})
    /\ budget = [runs |-> MaxRuns, faults |-> MaxFaults]
    /\ caller = "none" /\ pc = "idle" /\ run = 0 /\ index = << >> /\ targets = {}
    /\ todo = {} /\ target = <<>> /\ matches = <<>> /\ copied = 0
    /\ tlog = <<>> /\ clog = <<>>
    /\ PIdle

RNext == LoadFails \/ NothingToDo \/ Begin \/ NextTarget \/ CopyFile \/ Finish
SpecRerun == RInit /\ [][RNext]_vars

(***************************************************************************)
(* Properties of copy_files and find_and_copy_from_csv                     *)
(***************************************************************************)
\* the copies made for the target of tlog[i], in the order they were made
CopiesFor(i) == LET Mine(c) == c.target = tlog[i].target IN SelectSeq(clog, Mine)

\* the inner loop has gone through all candidates of tlog[i]
Processed(i) == i < Len(tlog) \/ pc \in {"loop", "done"}

\* the files that were at the destination before the first run
OldAt(dir, name) == \E f \in dst : f.dir = dir /\ f.name = name /\ f.data = OldData

\* C1: with overwrite disabled, a copy whose proposed destination exists is
\* written to <base>_<n><ext> in the same directory, n the smallest integer
\* >= 1 whose name is free, and no step changes or removes a file that was
\* at the destination.
C1_SuffixKeepsExisting ==
    [][ ~opts.overwrite =>
          /\ \A f \in dst : f \in dst'
          /\ (pc = "copy" /\ Exists(dst, DestDir(Head(matches), opts.keep_dir_structure),
                                    Head(matches).name)) =>
                LET src == Head(matches)
                    c == clog'[Len(clog')]
                IN  /\ c.src = src
                    /\ c.dir = DestDir(src, opts.keep_dir_structure)
                    /\ \E n \in 1..(Cardinality(dst) + 1) :
                          /\ c.name = Splitext(src.name)[1] \o <<"_">> \o DecStr(n)
                                          \o Splitext(src.name)[2]
                          /\ ~Exists(dst, c.dir, c.name)
                          /\ \A j \in 1..(n - 1) : Exists(dst, c.dir, Suffixed(src.name, j))
                    /\ c.res = "ok" =>
                          dst' = dst \cup {[dir |-> c.dir, name |-> c.name, data |-> CopyOf(src)]}
      ]_vars

\* a second file of the same basename went to <base>_2<ext> because
\* <base><ext> and <base>_1<ext> were taken, and the old file is still there
C1_Witness ==
    /\ ~opts.overwrite
    /\ OldAt(".", d_tif)
    /\ \E i \in 1..Len(clog) :
          /\ clog[i].res = "ok"
          /\ clog[i].src.name = d_tif
          /\ clog[i].name = <<"d", "_", "2">> \o DotTif
          /\ [dir |-> ".", name |-> clog[i].name, data |-> CopyOf(clog[i].src)] \in dst

\* C5: the resolver returns the list stored under the target when it is not
\* empty; only when it is empty and the target ends in ".tif" it looks up one
\* more key, the target with ".tif" replaced by ".tiff"; it looks up nothing
\* else, and a target with both lists empty is not copied.
C5_OneRetry ==
    \A i \in 1..Len(tlog) :
        LET e == tlog[i]
            direct == IF e.target \in DOMAIN index THEN index[e.target] ELSE <<>>
            tiff == SubSeq(e.target, 1, Len(e.target) - 4) \o <<".", "t", "i", "f", "f">>
        IN  /\ e.keys[1] = e.target
            /\ Len(e.keys) <= 2
            /\ direct # <<>> => e.keys = <<e.target>> /\ e.found = direct
            /\ (direct = <<>> /\ EndsWith(e.target, DotTif)) =>
                  /\ e.keys = <<e.target, tiff>>
                  /\ e.found = (IF tiff \in DOMAIN index THEN index[tiff] ELSE <<>>)
            /\ (direct = <<>> /\ ~EndsWith(e.target, DotTif)) =>
                  e.keys = <<e.target>> /\ e.found = <<>>
            /\ e.found = <<>> => CopiesFor(i) = <<>>
            /\ \A j \in 1..Len(CopiesFor(i)) :
                  \E k \in 1..Len(e.found) : CopiesFor(i)[j].src = e.found[k]

\* a run over an index that holds e.tiff only: e.tif was found through
\* "e.tiff" and copied, e.TIF was looked up once and not found
C5_Witness ==
    /\ pc = "done"
    /\ DOMAIN index = {e_tiff}
    /\ \E i \in 1..Len(tlog) :
          /\ tlog[i].target = e_tif /\ tlog[i].keys = <<e_tif, e_tiff>>
          /\ tlog[i].found # <<>> /\ CopiesFor(i) # <<>>
    /\ \E i \in 1..Len(tlog) :
          /\ tlog[i].target = e_TIF /\ tlog[i].keys = <<e_TIF>>
          /\ tlog[i].found = <<>> /\ CopiesFor(i) = <<>>

\* a target found under its own name, with no second lookup
C5_WitnessDirect ==
    \E i \in 1..Len(tlog) : tlog[i].keys = <<tlog[i].target>> /\ tlog[i].found # <<>>

C7_FatalBeforeSideEffects ==
    (caller = "find_and_copy_from_csv" /\ pc # "nothing" /\ (Loaded.error \/ ~rootOk)) =>
        /\ pc = "error"
        /\ \A f \in dst : f.data = OldData
        /\ dstDirs = {f.dir : f \in dst} \cup (IF dst = {} THEN {} ELSE {"."})

\* the slots <base><ext>, <base>_1<ext>, ... that are free among files
Slot(name, j) == IF j = 0 THEN name ELSE Suffixed(name, j)
FreeSlots(files, dir, name) ==
    {j \in 0..(Cardinality(files) + Len(clog) + 1) : ~Exists(files, dir, Slot(name, j))}
RECURSIVE NthFree(_, _)
NthFree(S, n) == IF n = 1 THEN MinOf(S) ELSE NthFree(S \ {MinOf(S)}, n - 1)

C8_WitnessKeep ==
    /\ opts.keep_dir_structure /\ pc = "done"
    /\ \E i \in 1..Len(tlog) :
          /\ Len(tlog[i].found) = 2 /\ tlog[i].found[1].name = tlog[i].found[2].name
          /\ \A j \in 1..2 :
                /\ Len(CopiesFor(i)) = 2 /\ CopiesFor(i)[j].res = "ok"
                /\ CopiesFor(i)[j].name = d_tif /\ CopiesFor(i)[j].dir = tlog[i].found[j].dir

C10_CopiedAtMostOnce ==
    caller = "find_and_copy_from_csv" =>
        /\ \A t \in targets : EndsWith(t, DotTif)
        /\ \A i, j \in 1..Len(tlog) :
              i # j =>
                /\ tlog[i].target # tlog[j].target
                /\ \A a \in 1..Len(tlog[i].keys), b \in 1..Len(tlog[j].keys) :
                      tlog[i].keys[a] # tlog[j].keys[b]
                /\ \A a \in 1..Len(tlog[i].found), b \in 1..Len(tlog[j].found) :
                      tlog[i].found[a] # tlog[j].found[b]
        /\ \A i, j \in 1..Len(clog) : i # j => clog[i].src # clog[j].src

\* two targets, one found directly and one through ".tiff", both copied
C10_Witness ==
    /\ caller = "find_and_copy_from_csv" /\ pc = "done"
    /\ Cardinality(targets) = 2
    /\ Len(clog) = 2
    /\ \E i \in 1..Len(tlog) : Len(tlog[i].keys) = 2 /\ tlog[i].found # <<>>

\* the names <base><ext>, <base>_1<ext>, ... a copy of name can be given
FamilyOf(name) == {Slot(name, j) : j \in 0..(MaxRuns * MaxFiles)}

\* the sources copied in this run
Sources == {clog[i].src : i \in 1..Len(clog)}

\* no other source copied into the same directory, and no file that was
\* there before the first run, has a name of the family of s
Uncontested(s) ==
    LET dir == DestDir(s, opts.keep_dir_structure)
    IN  /\ \A t \in Sources \ {s} :
              DestDir(t, opts.keep_dir_structure) = dir =>
                  FamilyOf(t.name) \cap FamilyOf(s.name) = {}
        /\ \A f \in dst : (f.dir = dir /\ f.data = OldData) => f.name \notin FamilyOf(s.name)

\* every run so far was of find_and_copy_from_csv with overwrite disabled,
\* has ended, and no copy failed
RunsDone ==
    /\ caller = "find_and_copy_from_csv" /\ pc = "done"
    /\ ~opts.overwrite
    /\ budget.faults = MaxFaults

MaxTokens == 4

Tokens ==
    { <<"a">>, <<"U+0130">>, <<"_", "j", "p", "g">>, <<"_", "T", "I", "F", "F">>,
      DotRfDot, DotJpg, <<".", "p", "n", "g">>,
      <<" ">>, <<"\"">>, <<"'">>, <<"/">> }

RECURSIVE TokenStrings(_)
TokenStrings(n) ==
    IF n = 0 THEN {<<>>}
    ELSE LET shorter == TokenStrings(n - 1)
         IN  shorter \cup {s \o t : s \in shorter, t \in Tokens}

Names == TokenStrings(MaxTokens)

MIdle ==
    /\ opts = [column |-> None, case_insensitive |-> FALSE, overwrite |-> FALSE,
               keep_dir_structure |-> FALSE]
    /\ table = [has_header |-> TRUE, fieldnames |-> <<>>, rows |-> {}]
    /\ rootOk = TRUE /\ disk = {} /\ walk = <<".">> /\ dst = {} /\ dstDirs = {}
    /\ caller = "none" /\ pc = "idle" /\ run = 0 /\ index = << >> /\ targets = {}
    /\ todo = {} /\ target = <<>>
    /\ matches = <<>> /\ copied = 0 /\ budget = [runs |-> 0, faults |-> 0] /\ tlog = <<>> /\ clog = <<>>

PInit ==
    /\ MIdle
    /\ p_arg \in Names
    /\ p_ci \in BOOLEAN
    /\ p_call = "none"
    /\ p_ret = <<>>

\* n1 = _normalize(raw, ci); n2 = _normalize(n1, ci)
CallNormalize ==
    /\ p_call \in {"none", "_normalize"}
    /\ Len(p_ret) < 2
    /\ p_call' = "_normalize"
    /\ p_ret' = Append(p_ret, normalize(IF p_ret = <<>> THEN p_arg ELSE p_ret[Len(p_ret)], p_ci))
    /\ UNCHANGED <<p_arg, p_ci, mvars>>

\* _csv_name_to_tif(name)
CallCsvNameToTif ==
    /\ p_call = "none"
    /\ p_call' = "_csv_name_to_tif"
    /\ p_ret' = <<csv_name_to_tif(p_arg)>>
    /\ UNCHANGED <<p_arg, p_ci, mvars>>

\* build_filename_index(root) on a root holding two files named p_arg
CallBuildIndex ==
    /\ p_call = "none"
    /\ p_arg # <<>> /\ \A i \in 1..Len(p_arg) : p_arg[i] # "/"
    /\ p_call' = "build_filename_index"
    /\ p_ret' = <<build_filename_index({[dir |-> ".", name |-> p_arg], [dir |-> "a", name |-> p_arg]},
                                       TRUE, <<".", "a">>, p_ci)>>
    /\ UNCHANGED <<p_arg, p_ci, mvars>>

PNext == CallNormalize \/ CallCsvNameToTif \/ CallBuildIndex

SpecPure == PInit /\ [][PNext]_vars

(***************************************************************************)
(* Properties of the functions                                             *)
(***************************************************************************)
\* c is the character x of a pattern, compared without regard to case
SameNoCase(c, x) == LowerChar(c) = <<x>>

\* the positions of name at which a segment _<jpg|jpeg|png|tif|tiff>.rf.
\* starts
SegmentStarts(name) ==
    {i \in 1..Len(name) :
        \E e \in RoboflowExts :
            LET seg == <<"_">> \o e \o <<".", "r", "f", ".">>
            IN  /\ i + Len(seg) - 1 <= Len(name)
                /\ \A j \in 1..Len(seg) : SameNoCase(name[i + j - 1], seg[j])}

IsFileName(name) == \A i \in 1..Len(name) : name[i] # "/"

\* C2: for a file name with a segment _<jpg|jpeg|png|tif|tiff>.rf. (case
\* ignored), _csv_name_to_tif returns what precedes the leftmost such segment
\* followed by ".tif", whatever else the name contains.
C2_ExportSuffixFirst ==
    (p_call = "_csv_name_to_tif" /\ IsFileName(p_arg) /\ SegmentStarts(p_arg) # {}) =>
        p_ret[1] = SubSeq(p_arg, 1, MinOf(SegmentStarts(p_arg)) - 1) \o <<".", "t", "i", "f">>

\* C3: _normalize(_normalize(s)) = _normalize(s)
C3_NormalizeIdempotent ==
    (p_call = "_normalize" /\ Len(p_ret) = 2) => p_ret[2] = p_ret[1]

\* C4: every path stored under a key of the index has a basename that
\* _normalize maps to that key.
C4_KeyIsNormalizedBasename ==
    p_call = "build_filename_index" =>
        \A k \in DOMAIN p_ret[1] :
            \A i \in 1..Len(p_ret[1][k]) : normalize(p_ret[1][k][i].name, p_ci) = k

====
